---- MODULE Spec2Model ----
(***************************************************************************)
(* Model of the session state machine of HRI_communication.py: run,        *)
(* _run_acquisition, _run_control, _control_routine, _acquire_unity_data,  *)
(* _skeleton_preprocessing and the two store-to-file routines.             *)
(*                                                                         *)
(* One behaviour is one Python process: the settings are fixed when the    *)
(* module is imported, run(mode) may be called several times, the module   *)
(* global first_skel lives across the calls.  A loop iteration of          *)
(* _run_acquisition / _run_control is one step; the flush branch of a loop *)
(* and the tail of run are steps of their own, taken in program order.     *)
(* The receiver loop of udp_receiver.py is a second, independent script.   *)
(***************************************************************************)
EXTENDS Integers, Sequences, FiniteSets, TLC

(***************************************************************************)
(* Bounds of the model.                                                    *)
(***************************************************************************)
\* frames a session accepts before the model stops offering ready ticks
MaxFrames == 2

(***************************************************************************)
(* Program constants.                                                      *)
(***************************************************************************)
MANY_DATA == 10000000
N_FLOATS_UDP == 10
\* idle = 1 in _run_acquisition: stop reading if idle for 1 sec
idle == 1
\* count = 200 at the start of _run_control
CONTROL_COUNT_INIT == 200
\* settings['headers']['unity'].size ("normally 32 values")
UNITY_HEADER_SIZE == 32
\* np.array('t').size: the timeout sentinel seen as a calibration sample
SENTINEL_SIZE == 1

VARIABLES
    \* settings, read when the module is imported
    n_readings, simulate_flag, input_device,
    \* position in run: "idle", "acq", "acq_flush", "ctl", "ctl_flush",
    \* "epilogue", "returned", "raised"
    pc,
    \* the argument of the current call of run ("" before the first call) and
    \* whether HRI.hri_state(settings) reports data on disk at that call
    mode, data_present,
    \* the mapping run holds (None while it holds none) and the calls of
    \* _import_mapping in the current call of run
    mapp, mapp_loads,
    \* the local remote_hand of run: the background reader of the remote
    \* (None while the name is not bound)
    remote_hand,
    \* the loop the current call of run entered: "none", "acquisition", "control"
    loop,
    \* value returned by run (-1 while none), exception that left run ("" while none)
    status, error,
    \* transport sockets open, calls of close_sockets in the current run
    sockets_open, n_close,
    \* locals of the running loop
    count, elapsed,
    input_data, unity_num, control_history_raw_num, control_history_num,
    \* time since `last` (now - last), saturating just above the idle threshold
    age,
    \* module global first_skel; the relativized and the debiased skeleton of
    \* the last frame the current run preprocessed
    first_skel, skel_rel, skel_unb,
    \* files written by the current run; the maneuver part of the name of the
    \* acquisition file ("" while there is none)
    acq_file, ctl_file, info_maneuver,
    \* observers: executions of a flush branch in the current run, commands
    \* sent in it, frames preprocessed in it; where first_skel was first
    \* captured ("none", "this" run, an "earlier" run) and the value captured
    flushes, sent, processed, first_run, first_value,
    \* observer: the flag read from the simulator in the iteration that entered
    \* the flush branch ("" before that iteration)
    quit_flag,
    \* a routine called on its own, outside a session: the routine that has
    \* been called ("" before the call), its arguments, what it returned
    fn, arg, res,
    \* the script udp_receiver.py: its position ("off", "loop", "exited"), the
    \* exception that left its loop ("" while none), its socket ("none",
    \* "bound", "closed"), its frame index and its output rows
    receiver_pc, receiver_error, sock, frame_idx, output_data

vars == <<n_readings, simulate_flag, input_device, pc, mode, data_present,
          mapp, mapp_loads, remote_hand, loop, status, error,
          sockets_open, n_close, count, elapsed, input_data,
          unity_num, control_history_raw_num, control_history_num, age,
          first_skel, skel_rel, skel_unb, acq_file, ctl_file,
          info_maneuver, flushes, sent, processed, first_run, first_value,
          quit_flag, fn, arg, res,
          receiver_pc, receiver_error, sock, frame_idx, output_data>>

(***************************************************************************)
(* Settings.                                                               *)
(***************************************************************************)
\* settings['used_body_parts'] and, per part, settings['kinematic_chain']
used_body_parts == <<"torso", "arm">>
NoParent == ""
kinematic_chain == <<NoParent, "torso">>
Parts == {used_body_parts[i] : i \in 1..Len(used_body_parts)}

InputDevices == {"motive", "remote"}
Modes == {"acquisition", "control"}
\* values of settings['n_readings'] the model runs with
NReadingsChoices == {MaxFrames, CONTROL_COUNT_INIT + MaxFrames}

(***************************************************************************)
(* Values on the wire.                                                     *)
(***************************************************************************)
\* joint angles of the input poses
AngleValues == {0, 1}
Poses == [Parts -> AngleValues]
ZeroPose == [p \in Parts |-> 0]
\* a datagram of the input device: the timeout sentinel 't' or a skeleton frame
Timeout == [kind |-> "t", pose |-> ZeroPose]
SkelFrame(pose) == [kind |-> "skel", pose |-> pose]
\* a skeleton buffer 3 bytes short of the expected size
ShortFrame == [kind |-> "short", pose |-> ZeroPose]
InputReads == {Timeout, ShortFrame} \cup {SkelFrame(p) : p \in Poses}
\* a read of the simulator calibration stream: its size in floats, its
\* maneuver label and the bytes left over after the last whole float
UnitySample(label) == [size |-> UNITY_HEADER_SIZE, maneuver |-> label, rest |-> 0]
UnityTimeout == [size |-> SENTINEL_SIZE, maneuver |-> 0, rest |-> 0]
UnityShort == [size |-> UNITY_HEADER_SIZE - 1, maneuver |-> 0, rest |-> 0]
\* a calibration datagram 3 bytes short of the header
UnityRagged == [size |-> UNITY_HEADER_SIZE - 1, maneuver |-> 0, rest |-> 1]
\* keys of calib_maneuver_dict the simulator labels its samples with
ManeuverLabels == {0, 1}
UnityReads == {UnityTimeout, UnityShort, UnityRagged}
                  \cup {UnitySample(l) : l \in ManeuverLabels}
\* what _acquire_unity_flag returns: a flag character or the sentinel
FlagReads == {"a", "c", "q", "r", "t"}

_timeout(data) == data.kind = "t"

(***************************************************************************)
(* The [None] * MANY_DATA lists, kept as the function of the written       *)
(* indices; an index that is not in the domain holds None.                 *)
(***************************************************************************)
EmptyList == [i \in {} |-> 0]
Index(i) == IF i < 0 THEN i + MANY_DATA ELSE i
IsSet(buf, i) == Index(i) \in DOMAIN buf
\* a bug: every frame is written over the first slot
PutAtStart(buf, i, v) == [j \in DOMAIN buf \cup {0} |-> IF j = 0 THEN v ELSE buf[j]]
Put(buf, i, v) == [j \in DOMAIN buf \cup {Index(i)} |->
                     IF j = Index(i) THEN v ELSE buf[j]]
Unset(buf, i) == [j \in DOMAIN buf \ {Index(i)} |-> buf[j]]
\* buf[i] = buf[j]
CopyItem(buf, i, j) == IF IsSet(buf, j) THEN Put(buf, i, buf[Index(j)])
                       ELSE Unset(buf, i)
\* [x for x in buf if x is not None]: the written items by ascending index
RECURSIVE NotNone(_)
NotNone(buf) ==
    IF DOMAIN buf = {} THEN <<>>
    ELSE LET m == CHOOSE i \in DOMAIN buf : \A j \in DOMAIN buf : j <= i
         IN  Append(NotNone(Unset(buf, m)), buf[m])
Min(a, b) == IF a < b THEN a ELSE b
\* an optional value: <<>> is None, <<v>> is v
None == <<>>
Some(v) == <<v>>

(***************************************************************************)
(* Kinematic preprocessing (_skeleton_preprocessing).                      *)
(***************************************************************************)
\* HRI_mapping.relativize_angles_dict: the part's angle minus its parent's
relativize_angles_dict(part, parent, data) ==
    IF parent = NoParent THEN data
    ELSE [data EXCEPT ![part] = data[part] - data[parent]]

\* for i in l (the part indices reversed): relativize part i
RECURSIVE RelativizeFrom(_, _)
RelativizeFrom(i, data) ==
    IF i = 0 THEN data
    ELSE RelativizeFrom(i - 1,
            relativize_angles_dict(used_body_parts[i], kinematic_chain[i], data))
Relativize(data) == RelativizeFrom(Len(used_body_parts), data)

\* the same loop for any settings: l = list(range(0, len(parts))), reversed
\* a bug: the parts are visited in declaration order
ForwardIndices(n) == [k \in 1..n |-> k - 1]
\* l.reverse(): need to reverse to respect kinematic chain
ReversedIndices(n) == [k \in 1..n |-> n - k]
RECURSIVE RelativizeVisit(_, _, _, _)
RelativizeVisit(parts, chain, l, data) ==
    IF l = <<>> THEN data
    ELSE RelativizeVisit(parts, chain, Tail(l),
            relativize_angles_dict(parts[Head(l) + 1], chain[Head(l) + 1], data))
\* a bug: once a first skeleton is stored, frames are no longer relativized
RelativizeChainAfterFirst(parts, chain, data) ==
    IF first_skel = None
    THEN RelativizeVisit(parts, chain, ReversedIndices(Len(parts)), data)
    ELSE data
\* lines 1169-1175: skel_rel from the input pose and the settings alone
RelativizeChain(parts, chain, data) ==
    RelativizeVisit(parts, chain, ReversedIndices(Len(parts)), data)

\* HRI_mapping._unbias_dict over every used body part
_unbias_dict(part, data, first) == [data EXCEPT ![part] = data[part] - first[part]]
RECURSIVE UnbiasFrom(_, _, _)
UnbiasFrom(i, data, first) ==
    IF i > Len(used_body_parts) THEN data
    ELSE UnbiasFrom(i + 1, _unbias_dict(used_body_parts[i], data, first), first)
\* a bug: only the first used body part is debiased
UnbiasFirstPartOnly(data, first) == _unbias_dict(used_body_parts[1], data, first)
Unbias(data, first) == UnbiasFrom(1, data, first)

\* a bug: the current skeleton replaces the first skeleton at every frame
FirstSkelAlways(fs, rel) == Some(rel)
\* if first_skel is None: first_skel = input_data.copy()
FirstSkelAfter(fs, rel) == IF fs = None THEN Some(rel) ELSE fs

\* a bug: run starts every session without a first skeleton
GlobalsResetAtRun(fs) == None
\* run assigns no module global: first_skel is what the last call left
GlobalsAtRun(fs) == fs

(***************************************************************************)
(* Command synthesis (_control_routine, lines 413-436).                    *)
(***************************************************************************)
regression_outputs == <<"torso", "arm">>
\* the fitted mapping: one scalar per regression output, from the features
y_score_scaled(skel) == [out \in Parts |-> skel[out]]
\* a bug: the command vector is as long as the list of outputs
ControlsUnpadded(outs, y) == [i \in 1..Len(outs) |-> y[outs[i]]]
\* controls = np.zeros(N_FLOATS_UDP); controls[i] = y_score_scaled[out]
ControlsFor(outs, y) == [i \in 1..N_FLOATS_UDP |->
                          IF i <= Len(outs) THEN y[outs[i]] ELSE 0]
Controls(y) == ControlsFor(regression_outputs, y)
\* the exception the two lookups of controls[i] = y_score_scaled[out] raise:
\* an index past the end of controls, a key y_score_scaled does not have
ControlsError(outs, y) ==
    IF Len(outs) > N_FLOATS_UDP \/ \E i \in 1..Len(outs) : outs[i] \notin DOMAIN y
    THEN "IndexError" ELSE ""
\* struct.pack('%sf' % len(arr), *arr): one 4-byte float per entry
struct_pack(arr) == [size |-> 4 * Len(arr), floats |-> arr]

\* a bug: values below the calibration minimum pass unclamped
ClampUpperOnly(x, lo, hi) == IF x > hi THEN hi ELSE x
\* _new, lines 607-610: clamp between min and max of calibration
Clamp(x, lo, hi) == IF x > hi THEN hi ELSE IF x < lo THEN lo ELSE x
\* for count, i in enumerate(skel_tofit_red[0]): the row handed to predict
ClampRow(row, min_inputs, max_inputs) ==
    [k \in 1..Len(row) |-> Clamp(row[k], min_inputs[k], max_inputs[k])]

\* settings['control_style']
ControlStyles == {"simple", "maxmin", "new"}
\* an entry of settings['regression_outputs']: a channel name or a position
OutName(n) == [kind |-> "name", id |-> n]
OutIndex(n) == [kind |-> "index", id |-> n]
\* y_score_scaled as _control_routine gets it: a 2-entry array ('simple'),
\* the flattened prediction ('new'), a dict keyed by the outputs ('maxmin')
YScore(style, outs, scores) ==
    IF style = "maxmin"
    THEN [k \in {outs[i] : i \in 1..Len(outs)} |-> scores[(k.id % Len(scores)) + 1]]
    ELSE [k \in {OutIndex(i - 1) : i \in 1..Len(scores)} |-> scores[k.id + 1]]
\* lines 425-434: what is stored in control_history_num[count] and what is
\* handed to udp_write
ControlRoutineTail(style, outs, scores) ==
    LET y == YScore(style, outs, scores)
        err == ControlsError(outs, y)
    IN  IF err # ""
        THEN [error |-> err, controls |-> <<>>, message |-> struct_pack(<<>>)]
        ELSE [error |-> "", controls |-> ControlsFor(outs, y),
              message |-> struct_pack(ControlsFor(outs, y))]

(***************************************************************************)
(* Simulator calibration samples (_acquire_unity_data).                    *)
(***************************************************************************)
\* _process_unity_calib: the sentinel passes through; struct.unpack of
\* len(data)//4 floats refuses a buffer with bytes left over
ProcessUnityCalibError(data) ==
    IF data = UnityTimeout THEN ""
    ELSE IF data.rest # 0 THEN "struct.error in _process_unity_calib"
    ELSE ""

AcquireUnityData(buf, cnt, unity_calib) ==
    IF unity_calib.size = UNITY_HEADER_SIZE
    THEN Put(buf, cnt, unity_calib)
    ELSE CopyItem(buf, cnt, cnt - 1)

(***************************************************************************)
(* Time: elapsed = now - last, with now = last + age + dt.                 *)
(***************************************************************************)
ElapsedCap == idle + 1
\* the time between two iterations: none, up to the threshold, beyond it
TimeSteps == 0..ElapsedCap
Elapsed(dt) == Min(age + dt, ElapsedCap)

(***************************************************************************)
(* The flag a loop iteration acts on.                                      *)
(***************************************************************************)
\* a bug: the acquisition loop takes the ready flag of the control mode too
AcqFlagAnyReady(flag, cnt, el) ==
    IF cnt > 0 /\ el > idle THEN "q"
    ELSE IF cnt >= n_readings THEN "q"
    ELSE IF simulate_flag \/ flag = "c" THEN "a" ELSE flag
\* a bug: the idle test is missing from the acquisition loop
AcqFlagNoIdle(flag, cnt, el) ==
    IF cnt >= n_readings THEN "q"
    ELSE IF simulate_flag THEN "a" ELSE flag
\* _run_acquisition, lines 1008-1026
AcqFlag(flag, cnt, el) ==
    IF cnt > 0 /\ el > idle THEN "q"
    ELSE IF cnt >= n_readings THEN "q"
    ELSE IF simulate_flag THEN "a" ELSE flag

\* a bug: the control loop quits when idle, as the acquisition loop does
CtlFlagIdle(flag, cnt, el) ==
    IF cnt > CONTROL_COUNT_INIT /\ el > idle THEN "q"
    ELSE IF simulate_flag THEN "c" ELSE flag
\* _run_control, line 1107
CtlFlag(flag, cnt, el) == IF simulate_flag THEN "c" ELSE flag

(***************************************************************************)
(* Init: the module has been imported, run has not been called.            *)
(***************************************************************************)
\* the session state of a process that has imported the module
Imported ==
    /\ pc = "idle"
    /\ mode = ""
    /\ data_present = FALSE
    /\ mapp = None
    /\ mapp_loads = 0
    /\ remote_hand = None
    /\ loop = "none"
    /\ status = -1
    /\ error = ""
    /\ sockets_open = FALSE
    /\ n_close = 0
    /\ count = 0
    /\ elapsed = 0
    /\ quit_flag = ""
    /\ input_data = EmptyList
    /\ unity_num = EmptyList
    /\ control_history_raw_num = EmptyList
    /\ control_history_num = EmptyList
    /\ age = 0
    /\ first_skel = None
    /\ skel_rel = ZeroPose
    /\ skel_unb = ZeroPose
    /\ acq_file = None
    /\ ctl_file = None
    /\ info_maneuver = ""
    /\ flushes = 0
    /\ sent = 0
    /\ processed = 0
    /\ first_run = "none"
    /\ first_value = ZeroPose

\* udp_receiver.py is not running
ReceiverOff ==
    /\ receiver_pc = "off"
    /\ receiver_error = ""
    /\ sock = "none"
    /\ frame_idx = 0
    /\ output_data = EmptyList

Init ==
    /\ n_readings \in NReadingsChoices
    /\ simulate_flag \in BOOLEAN
    /\ input_device \in InputDevices
    /\ Imported
    /\ ReceiverOff
    /\ fn = ""
    /\ arg = None
    /\ res = None

fnVars == <<fn, arg, res>>
receiverVars == <<receiver_pc, receiver_error, sock, frame_idx, output_data>>
settingsVars == <<n_readings, simulate_flag, input_device>>
callVars == <<mode, data_present, mapp, mapp_loads, remote_hand>>
skelVars == <<first_skel, skel_rel, skel_unb, first_run, first_value, processed>>
bufVars == <<input_data, unity_num, control_history_raw_num, control_history_num>>
fileVars == <<acq_file, ctl_file, info_maneuver>>
resultVars == <<status, error>>
sockVars == <<sockets_open, n_close>>

(***************************************************************************)
(* _import_mapping (lines 468-528), called by run in control mode.         *)
(***************************************************************************)
\* the persisted artifact of the mapping procedure: a fitted mapping, an
\* object without the 'parameters' entry, no file
MappingArtifacts == {"fitted", "malformed", "missing"}
Loaded == [error |-> "", mapp |-> Some("fitted")]
LoadFailed(err) == [error |-> err, mapp |-> None]
\* what a call can end with: mapp['parameters'] of line 526 raises KeyError
\* on a dict without that entry; without a file HRI.load_obj raises, or
\* returns no dict and line 526 raises TypeError
ImportMapping(artifact) ==
    IF artifact = "fitted" THEN {Loaded}
    ELSE IF artifact = "malformed" THEN {LoadFailed("KeyError")}
    ELSE {LoadFailed("FileNotFoundError"), LoadFailed("TypeError")}
ImportOutcomes == UNION {ImportMapping(a) : a \in MappingArtifacts}
\* a bug: run swallows the exception and enters the loop all the same
AfterImportMappingIgnored(err) == "ctl"
\* mapp = _import_mapping(...); _run_control(mapp): the call of the loop
\* is reached only when the load returned
AfterImportMapping(err) == IF err # "" THEN "raised" ELSE "ctl"

(***************************************************************************)
(* run, up to the loop (lines 1490-1521).                                  *)
(***************************************************************************)
\* An exception that leaves run does not end the process (the module is
\* meant for an interactive interpreter), so run can be called again.
Run(m, present, load) ==
    /\ pc \in {"idle", "returned", "raised"}
    /\ m = "control" => ~present
    /\ (m # "control" \/ input_device = "remote") => load = Loaded
    /\ mapp' = IF m = "control" /\ input_device # "remote" THEN load.mapp ELSE None
    /\ mapp_loads' = IF m = "control" /\ input_device # "remote" THEN 1 ELSE 0
    /\ mode' = m /\ data_present' = present
    \* remote_hand = _start_remote_acquisition() raises before it assigns
    /\ remote_hand' = None
    /\ flushes' = 0 /\ sent' = 0 /\ processed' = 0
    /\ acq_file' = None /\ ctl_file' = None /\ info_maneuver' = ""
    /\ input_data' = EmptyList /\ unity_num' = EmptyList
    /\ control_history_raw_num' = EmptyList /\ control_history_num' = EmptyList
    /\ elapsed' = 0 /\ age' = 0 /\ quit_flag' = ""
    /\ first_skel' = GlobalsAtRun(first_skel)
    /\ skel_rel' = ZeroPose /\ skel_unb' = ZeroPose
    /\ first_run' = IF first_run = "none" THEN "none" ELSE "earlier"
    /\ UNCHANGED <<fnVars, receiverVars, settingsVars, first_value>>
    /\ IF input_device = "remote"
       THEN \* _start_remote_acquisition: the name remote_handler is not
            \* bound in the module (its import is commented out)
            /\ pc' = "raised" /\ error' = "NameError" /\ status' = -1
            /\ loop' = "none" /\ count' = 0
            /\ sockets_open' = TRUE /\ n_close' = 0
       ELSE IF m = "acquisition" /\ present
       THEN \* close_sockets(); return 1
            /\ pc' = "returned" /\ error' = "" /\ status' = 1
            /\ loop' = "none" /\ count' = 0
            /\ sockets_open' = FALSE /\ n_close' = 1
       ELSE IF m = "acquisition"
       THEN /\ pc' = "acq" /\ error' = "" /\ status' = -1
            /\ loop' = "acquisition" /\ count' = 0
            /\ sockets_open' = TRUE /\ n_close' = 0
       ELSE IF AfterImportMapping(load.error) = "raised"
       THEN \* the exception of _import_mapping leaves run (line 1518)
            /\ pc' = "raised" /\ error' = load.error /\ status' = -1
            /\ loop' = "none" /\ count' = 0
            /\ sockets_open' = TRUE /\ n_close' = 0
       ELSE /\ pc' = "ctl" /\ error' = "" /\ status' = -1
            /\ loop' = "control" /\ count' = CONTROL_COUNT_INIT
            /\ sockets_open' = TRUE /\ n_close' = 0

(***************************************************************************)
(* _run_acquisition: one loop iteration (lines 1003-1043).                 *)
(***************************************************************************)
AcqAccept(frame, flag, dt, unity_calib) ==
    /\ pc = "acq"
    /\ count < MaxFrames
    /\ AcqFlag(flag, count, Elapsed(dt)) = "a"
    /\ elapsed' = Elapsed(dt) /\ age' = 0
    /\ input_data' = Put(input_data, count, frame)
    /\ IF ProcessUnityCalibError(unity_calib) # ""
       THEN \* the exception of line 935 leaves _run_acquisition and run
            /\ pc' = "raised"
            /\ error' = ProcessUnityCalibError(unity_calib)
            /\ UNCHANGED <<unity_num, count>>
       ELSE /\ unity_num' = AcquireUnityData(unity_num, count, unity_calib)
            /\ count' = count + 1
            /\ UNCHANGED <<pc, error>>
    /\ UNCHANGED <<fnVars, receiverVars, settingsVars, callVars, loop, status, sockVars, skelVars,
                   control_history_raw_num, control_history_num, fileVars, flushes, sent, quit_flag>>

AcqQuit(flag, dt) ==
    /\ pc = "acq"
    /\ AcqFlag(flag, count, Elapsed(dt)) = "q"
    /\ elapsed' = Elapsed(dt) /\ age' = Elapsed(dt)
    /\ quit_flag' = flag
    /\ pc' = "acq_flush"
    /\ UNCHANGED <<fnVars, receiverVars, settingsVars, callVars, loop, resultVars, sockVars, skelVars, bufVars,
                   count, fileVars, flushes, sent>>

AcqSkip(flag, dt) ==
    /\ pc = "acq"
    /\ AcqFlag(flag, count, Elapsed(dt)) \notin {"a", "q"}
    /\ elapsed' = Elapsed(dt) /\ age' = Elapsed(dt)
    /\ UNCHANGED <<fnVars, receiverVars, settingsVars, callVars, pc, loop, resultVars, sockVars, skelVars,
                   bufVars, count, fileVars, flushes, sent, quit_flag>>

(***************************************************************************)
(* The flush branch of _run_acquisition (lines 1045-1057):                 *)
(* _process_input_data, _store_acquisition_to_file, close_sockets.         *)
(***************************************************************************)
\* the exception the flush raises, "" when it raises none
AcqFlushError(ins, us) ==
    IF \E i \in 1..Len(ins) : ins[i].kind # "skel"
    THEN LET bad == CHOOSE i \in 1..Len(ins) :
                        /\ ins[i].kind # "skel"
                        /\ \A j \in 1..(i - 1) : ins[j].kind = "skel"
         IN  IF _timeout(ins[bad])
             THEN "AttributeError"   \* line 788: 't'.resize
             ELSE "struct.error"     \* line 786: struct.unpack at line 689
    ELSE IF Len(us) = 0
    THEN "IndexError"          \* line 839: unity_data[0]
    ELSE IF Min(Len(ins), Len(us)) <= 1
    THEN "UnboundLocalError"   \* line 1404: filename was never assigned
    ELSE ""
\* calib_data = np.c_[input_data_num, unity_num], cut to the shorter one
AcqRows(ins, us) ==
    [i \in 1..Min(Len(ins), Len(us)) |-> [input |-> ins[i].pose, unity |-> us[i]]]

\* calib_maneuver_dict, on the labels the simulator sends
calib_maneuver_dict == [l \in ManeuverLabels |->
                          IF l = 0 THEN "forward" ELSE "backward"]
\* np.unique(acquired_data[1:, -5]): the distinct labels of the rows
np_unique(rows) == {rows[i].unity.maneuver : i \in 1..Len(rows)}
\* a bug: the file is always named after the label of its last row
InfoManeuverOfLast(rows) == calib_maneuver_dict[rows[Len(rows)].unity.maneuver]
\* lines 1374-1379, for the two rows or more a file is written with
InfoManeuver(rows) ==
    IF Cardinality(np_unique(rows)) = 1
    THEN calib_maneuver_dict[rows[Len(rows)].unity.maneuver]
    ELSE "mixed"

\* a bug: the loop goes on after the flush
AfterAcqFlushNoStop == "acq"
\* stop = True: the loop ends and _run_acquisition returns to run
AfterAcqFlush == "epilogue"

AcqFlush ==
    /\ pc = "acq_flush"
    /\ flushes' = flushes + 1
    /\ LET ins == NotNone(input_data)
           us == NotNone(unity_num)
           err == AcqFlushError(ins, us)
       IN  IF err = ""
           THEN /\ acq_file' = Some(AcqRows(ins, us))
                /\ info_maneuver' = InfoManeuver(AcqRows(ins, us))
                /\ sockets_open' = FALSE /\ n_close' = n_close + 1
                /\ pc' = AfterAcqFlush
                /\ UNCHANGED error
           ELSE /\ pc' = "raised" /\ error' = err
                /\ UNCHANGED <<acq_file, info_maneuver, sockVars>>
    /\ UNCHANGED <<fnVars, receiverVars, settingsVars, callVars, loop, status, skelVars, bufVars, count,
                   elapsed, age, quit_flag, ctl_file, sent>>

(***************************************************************************)
(* _run_control: one loop iteration (lines 1096-1134), _control_routine    *)
(* included.                                                               *)
(***************************************************************************)
\* if count>=n_readings (line 1120), after the frame of this iteration
AfterCtlTick(flag, cnt) ==
    IF flag = "q" \/ cnt >= n_readings THEN "ctl_flush" ELSE "ctl"

\* a bug: the routine records the input before it tests it
MissingInputRecorded(frame, cnt, raw, num, first) ==
    [error |-> "NameError", raw |-> Put(raw, cnt, frame.pose), num |-> num,
     first_skel |-> first, sent |-> 0]
\* raise NameError('No data from input device!') (lines 285-286)
MissingInput(frame, cnt, raw, num, first) ==
    [error |-> "NameError", raw |-> raw, num |-> num, first_skel |-> first, sent |-> 0]
\* what a call of _control_routine does to the histories, the reference
\* pose and the command socket, and the exception it raises ("" for none)
ControlRoutineOutcome(frame, cnt, raw, num, first) ==
    IF _timeout(frame) THEN MissingInput(frame, cnt, raw, num, first)
    ELSE IF frame.kind # "skel"
    THEN \* struct.unpack refuses a buffer of another size in
         \* _process_motive_skeleton (lines 294, 689)
         [error |-> "struct.error", raw |-> raw, num |-> num,
          first_skel |-> first, sent |-> 0]
    ELSE LET rel == Relativize(frame.pose)
             ref == FirstSkelAfter(first, rel)
             unb == Unbias(rel, ref[1])
         IN  [error |-> "", raw |-> Put(raw, cnt, frame.pose),
              num |-> Put(num, cnt, Controls(y_score_scaled(unb))),
              first_skel |-> ref, sent |-> 1]

CtlAccept(frame, flag, dt, unity_calib) ==
    /\ pc = "ctl"
    /\ count - CONTROL_COUNT_INIT < MaxFrames
    /\ simulate_flag => flag = "t"
    /\ CtlFlag(flag, count, Elapsed(dt)) = "c"
    /\ elapsed' = Elapsed(dt)
    /\ IF ProcessUnityCalibError(unity_calib) # ""
       THEN \* the exception of line 935 leaves _run_control and run
            /\ pc' = "raised"
            /\ error' = ProcessUnityCalibError(unity_calib)
            /\ age' = Elapsed(dt)
            /\ UNCHANGED <<unity_num, count, skelVars, control_history_raw_num,
                           control_history_num, sent, quit_flag>>
       ELSE LET out == ControlRoutineOutcome(frame, count, control_history_raw_num,
                                             control_history_num, first_skel)
            IN  /\ unity_num' = AcquireUnityData(unity_num, count, unity_calib)
                /\ control_history_raw_num' = out.raw
                /\ control_history_num' = out.num
                /\ first_skel' = out.first_skel
                /\ sent' = sent + out.sent
                /\ IF out.error # ""
                   THEN \* the exception leaves _run_control and run
                        /\ pc' = "raised"
                        /\ error' = out.error
                        /\ age' = Elapsed(dt)
                        /\ UNCHANGED <<count, skel_rel, skel_unb, first_run,
                                       first_value, processed, quit_flag>>
                   ELSE /\ skel_rel' = Relativize(frame.pose)
                        /\ skel_unb' = Unbias(Relativize(frame.pose), out.first_skel[1])
                        /\ processed' = processed + 1
                        /\ first_run' = IF first_run = "none" THEN "this" ELSE first_run
                        /\ first_value' = IF first_run = "none"
                                          THEN Relativize(frame.pose) ELSE first_value
                        /\ count' = count + 1
                        /\ age' = 0
                        /\ pc' = AfterCtlTick("c", count + 1)
                        /\ quit_flag' = IF AfterCtlTick("c", count + 1) = "ctl_flush"
                                        THEN flag ELSE quit_flag
                        /\ UNCHANGED error
    /\ UNCHANGED <<fnVars, receiverVars, settingsVars, callVars, loop, status, sockVars, input_data, fileVars, flushes>>

CtlQuit(flag, dt) ==
    /\ pc = "ctl"
    /\ simulate_flag => flag = "t"
    /\ CtlFlag(flag, count, Elapsed(dt)) # "c"
    /\ AfterCtlTick(CtlFlag(flag, count, Elapsed(dt)), count) = "ctl_flush"
    /\ elapsed' = Elapsed(dt) /\ age' = Elapsed(dt)
    /\ quit_flag' = flag
    /\ pc' = "ctl_flush"
    /\ UNCHANGED <<fnVars, receiverVars, settingsVars, callVars, loop, resultVars, sockVars, skelVars, bufVars,
                   count, fileVars, flushes, sent>>

CtlSkip(flag, dt) ==
    /\ pc = "ctl"
    /\ simulate_flag => flag = "t"
    /\ CtlFlag(flag, count, Elapsed(dt)) # "c"
    /\ AfterCtlTick(CtlFlag(flag, count, Elapsed(dt)), count) = "ctl"
    /\ elapsed' = Elapsed(dt) /\ age' = Elapsed(dt)
    /\ UNCHANGED <<fnVars, receiverVars, settingsVars, callVars, pc, loop, resultVars, sockVars, skelVars,
                   bufVars, count, fileVars, flushes, sent, quit_flag>>

(***************************************************************************)
(* The flush branch of _run_control (lines 1120-1130):                     *)
(* _store_control_to_file, close_sockets.                                  *)
(***************************************************************************)
\* the exception _store_control_to_file raises, "" when it raises none
StoreControlError(rows) ==
    IF Len(rows) = 0
    THEN "ValueError"   \* line 1425: np.vstack of the header and an empty list
    ELSE "TypeError"    \* line 1433: time.time() - t, t a string
\* np.savetxt (line 1430) comes before line 1433
StoreControlFile(rows) == IF Len(rows) = 0 THEN None ELSE Some(rows)

CtlFlush ==
    /\ pc = "ctl_flush"
    /\ flushes' = flushes + 1
    /\ LET rows == NotNone(control_history_num)
           err == StoreControlError(rows)
       IN  /\ ctl_file' = StoreControlFile(rows)
           /\ IF err = ""
              THEN /\ sockets_open' = FALSE /\ n_close' = n_close + 1
                   /\ pc' = "epilogue"
                   /\ UNCHANGED error
              ELSE /\ pc' = "raised" /\ error' = err
                   /\ UNCHANGED sockVars
    /\ UNCHANGED <<fnVars, receiverVars, settingsVars, callVars, loop, status, skelVars, bufVars, count,
                   elapsed, age, quit_flag, acq_file, info_maneuver, sent>>

(***************************************************************************)
(* The tail of run (lines 1523-1528): close_sockets(); return 0.           *)
(***************************************************************************)
RunReturn ==
    /\ pc = "epilogue"
    /\ sockets_open' = FALSE /\ n_close' = n_close + 1
    /\ status' = 0
    /\ pc' = "returned"
    /\ UNCHANGED <<fnVars, receiverVars, settingsVars, callVars, loop, error, skelVars, bufVars, count, elapsed,
                   age, quit_flag, fileVars, flushes, sent>>

Next ==
    \/ \E m \in Modes, present \in BOOLEAN, load \in ImportOutcomes : Run(m, present, load)
    \/ \E frame \in InputReads, flag \in FlagReads, dt \in TimeSteps,
          unity_calib \in UnityReads : AcqAccept(frame, flag, dt, unity_calib)
    \/ \E flag \in FlagReads, dt \in TimeSteps : AcqQuit(flag, dt)
    \/ \E flag \in FlagReads, dt \in TimeSteps : AcqSkip(flag, dt)
    \/ AcqFlush
    \/ \E frame \in InputReads, flag \in FlagReads, dt \in TimeSteps,
          unity_calib \in UnityReads : CtlAccept(frame, flag, dt, unity_calib)
    \/ \E flag \in FlagReads, dt \in TimeSteps : CtlQuit(flag, dt)
    \/ \E flag \in FlagReads, dt \in TimeSteps : CtlSkip(flag, dt)
    \/ CtlFlush
    \/ RunReturn

Spec == Init /\ [][Next]_vars

(***************************************************************************)
(* A process that only records (every call is run('acquisition')) and a    *)
(* process that only controls (every call is run('control')).              *)
(***************************************************************************)
NextAcq ==
    \/ \E present \in BOOLEAN : Run("acquisition", present, Loaded)
    \/ \E frame \in InputReads, flag \in FlagReads, dt \in TimeSteps,
          unity_calib \in UnityReads : AcqAccept(frame, flag, dt, unity_calib)
    \/ \E flag \in FlagReads, dt \in TimeSteps : AcqQuit(flag, dt)
    \/ \E flag \in FlagReads, dt \in TimeSteps : AcqSkip(flag, dt)
    \/ AcqFlush
    \/ RunReturn

SpecAcq == Init /\ [][NextAcq]_vars

NextCtl ==
    \/ \E load \in ImportOutcomes : Run("control", FALSE, load)
    \/ \E frame \in InputReads, flag \in FlagReads, dt \in TimeSteps,
          unity_calib \in UnityReads : CtlAccept(frame, flag, dt, unity_calib)
    \/ \E flag \in FlagReads, dt \in TimeSteps : CtlQuit(flag, dt)
    \/ \E flag \in FlagReads, dt \in TimeSteps : CtlSkip(flag, dt)
    \/ CtlFlush

SpecCtl == Init /\ [][NextCtl]_vars

(***************************************************************************)
(* A process that calls run once, in either mode, as the script at the     *)
(* end of the module does.                                                 *)
(***************************************************************************)
NextOneCall ==
    \/ /\ pc = "idle"
       /\ \E m \in Modes, present \in BOOLEAN, load \in ImportOutcomes :
             Run(m, present, load)
    \/ \E frame \in InputReads, flag \in FlagReads, dt \in TimeSteps,
          unity_calib \in UnityReads : AcqAccept(frame, flag, dt, unity_calib)
    \/ \E flag \in FlagReads, dt \in TimeSteps : AcqQuit(flag, dt)
    \/ \E flag \in FlagReads, dt \in TimeSteps : AcqSkip(flag, dt)
    \/ AcqFlush
    \/ \E frame \in InputReads, flag \in FlagReads, dt \in TimeSteps,
          unity_calib \in UnityReads : CtlAccept(frame, flag, dt, unity_calib)
    \/ \E flag \in FlagReads, dt \in TimeSteps : CtlQuit(flag, dt)
    \/ \E flag \in FlagReads, dt \in TimeSteps : CtlSkip(flag, dt)
    \/ CtlFlush
    \/ RunReturn
SpecOneCall == Init /\ [][NextOneCall]_vars
\* the loops are `while not stop` loops whose reads return after a timeout:
\* an iteration that can be taken is taken
SpecOneCallFair == SpecOneCall /\ WF_vars(NextOneCall)

(***************************************************************************)
(* One iteration of a loop on a given flag and time step, whatever branch  *)
(* it takes.                                                               *)
(***************************************************************************)
AcqTick(flag, dt) ==
    \/ \E frame \in InputReads, unity_calib \in UnityReads :
          AcqAccept(frame, flag, dt, unity_calib)
    \/ AcqQuit(flag, dt)
    \/ AcqSkip(flag, dt)
CtlTick(flag, dt) ==
    \/ \E frame \in InputReads, unity_calib \in UnityReads :
          CtlAccept(frame, flag, dt, unity_calib)
    \/ CtlQuit(flag, dt)
    \/ CtlSkip(flag, dt)

(***************************************************************************)
(* Routines called on their own: the process has imported the module, run  *)
(* is not called, one routine is applied to arguments drawn from a set.    *)
(***************************************************************************)
sessionVars == <<settingsVars, callVars, pc, loop, resultVars, sockVars, count,
                 elapsed, age, bufVars, skelVars, fileVars, flushes, sent,
                 quit_flag, receiverVars>>
NoSession ==
    /\ n_readings = MaxFrames
    /\ simulate_flag = FALSE
    /\ input_device = "motive"
    /\ Imported
    /\ ReceiverOff

\* values of the regression outputs
ScoreValues == {-1, 0, 1}
\* more outputs than the command vector has entries
TooManyOutputs == [i \in 1..(N_FLOATS_UDP + 1) |-> OutIndex(0)]
\* values of settings['regression_outputs']
OutputConfigs ==
    {<<>>, <<OutName(1)>>, <<OutName(1), OutName(2)>>, <<OutName(2), OutName(1)>>,
     <<OutIndex(0)>>, <<OutIndex(1)>>, <<OutIndex(0), OutIndex(1)>>,
     <<OutIndex(1), OutIndex(0)>>, <<OutIndex(2)>>, TooManyOutputs}
ControlRoutineArgs ==
    [control_style : ControlStyles, regression_outputs : OutputConfigs,
     scores : [1..2 -> ScoreValues]]

InitControlRoutine ==
    /\ NoSession
    /\ fn = "" /\ arg \in ControlRoutineArgs /\ res = None
\* _control_routine from line 425 on
ControlRoutine ==
    /\ fn = ""
    /\ fn' = "_control_routine"
    /\ res' = ControlRoutineTail(arg.control_style, arg.regression_outputs, arg.scores)
    /\ UNCHANGED <<arg, sessionVars>>
SpecControlRoutine == InitControlRoutine /\ [][ControlRoutine]_vars

\* reduced features, and the calibration bounds (min <= max per feature)
FeatureValues == -2..2
BoundValues == {-1, 1}
NFeatures == 3
NewArgs ==
    {a \in [row : [1..NFeatures -> FeatureValues],
            min_values : [1..NFeatures -> BoundValues],
            max_values : [1..NFeatures -> BoundValues]] :
        \A k \in 1..NFeatures : a.min_values[k] <= a.max_values[k]}

InitNew ==
    /\ NoSession
    /\ fn = "" /\ arg \in NewArgs /\ res = None
\* _new up to the call of the regressor (lines 599-618)
New ==
    /\ fn = ""
    /\ fn' = "_new"
    /\ res' = [error |-> "",
               regressor_input |-> ClampRow(arg.row, arg.min_values, arg.max_values)]
    /\ UNCHANGED <<arg, sessionVars>>
SpecNew == InitNew /\ [][New]_vars

\* a three-part skeleton: every kinematic chain over it, every pose
ChainParts == <<"torso", "arm", "hand">>
ChainAngles == 0..2
RelativizeArgs ==
    [parts : {ChainParts},
     chain : [1..Len(ChainParts) ->
                {NoParent} \cup {ChainParts[i] : i \in 1..Len(ChainParts)}],
     pose : [{ChainParts[i] : i \in 1..Len(ChainParts)} -> ChainAngles]]
\* the first skeleton other frames may have stored between two calls
StoredFirstSkels == {None} \cup {Some(p) : p \in Poses}

InitSkeletonRelativize ==
    /\ NoSession
    /\ fn = "" /\ arg \in RelativizeArgs /\ res = None
\* _skeleton_preprocessing up to skel_rel (lines 1165-1175), called twice on
\* the same frame; res lists, per call, the parts visited and skel_rel
SkeletonRelativize(stored) ==
    /\ Len(res) < 2
    /\ fn' = "_skeleton_preprocessing"
    /\ res' = Append(res,
                 [visited |-> ReversedIndices(Len(arg.parts)),
                  pose |-> RelativizeChain(arg.parts, arg.chain, arg.pose)])
    /\ first_skel' = stored
    /\ UNCHANGED <<arg, receiverVars, settingsVars, callVars, pc, loop, resultVars, sockVars,
                   count, elapsed, age, bufVars, skel_rel, skel_unb, first_run,
                   first_value, processed, fileVars, flushes, sent, quit_flag>>
SpecSkeletonRelativize ==
    InitSkeletonRelativize
    /\ [][\E stored \in StoredFirstSkels : SkeletonRelativize(stored)]_vars

(***************************************************************************)
(* Decoding (_process_motive_skeleton, _process_imus).  A buffer is the    *)
(* sequence of its records, in arrival order, and the number of bytes it   *)
(* is short of the expected size; a record is its ID field and a payload   *)
(* that stands for its position and quaternion (Euler angles and           *)
(* quaternion for an IMU).                                                 *)
(***************************************************************************)
\* records in a buffer of the expected size
NRecords == 3
\* number of binary digits of a natural number (bin(0) is '0b0')
RECURSIVE BinDigits(_)
BinDigits(n) == IF n < 2 THEN 1 ELSE 1 + BinDigits(n \div 2)
\* int(bin(raw)[-8:], 2) for raw >= 0: the string '0b...' whole when it has
\* at most 8 characters, its last 8 digits when it has 8 digits or more,
\* and 'b' followed by 7 digits, which int() refuses, in between
JointIDError(raw) == IF BinDigits(raw) = 7 THEN "ValueError" ELSE ""
JointID(raw) == IF BinDigits(raw) >= 8 THEN raw % 256 ELSE raw
\* bytes of one int or float of a skeleton record; settings['n_bytes_per_imu']
\* (the dummy IMU record "qqccccccccdddddddddd" has 104 bytes)
SKELETON_ITEM_BYTES == 4
n_bytes_per_imu == 104
\* struct.unpack(strs, data): strs describes len(data) // unit whole units,
\* unpack refuses a buffer of any other size
UnpackError(missing, unit) == IF missing % unit # 0 THEN "struct.error" ELSE ""
Perms(n) == {f \in [1..n -> 1..n] : \A i, j \in 1..n : f[i] = f[j] => i = j}
\* np.c_[ID, position, quaternion]: one row per record, in arrival order
SkeletonRows(records) ==
    [i \in 1..Len(records) |->
        [id |-> JointID(records[i].id), payload |-> records[i].payload]]
\* data[data[:, 0].argsort()]: perm is an order argsort may return (the
\* default sort is not stable, equal IDs come out in any order)
ArgSort(rows, perm) ==
    \A i, j \in 1..Len(rows) : i < j => rows[perm[i]].id <= rows[perm[j]].id
SkeletonDecodeError(a) ==
    IF UnpackError(a.missing, SKELETON_ITEM_BYTES) # ""
    THEN UnpackError(a.missing, SKELETON_ITEM_BYTES)
    ELSE IF \E i \in 1..Len(a.records) : JointIDError(a.records[i].id) # ""
    THEN "ValueError"
    ELSE ""

\* settings['imu_ID'][name]: the configured devices are 1..n, any other
\* name is not a key of the dict
ImuIDError(id) == IF id \in 1..NRecords THEN "" ELSE "KeyError"
ImuDecodeError(a) ==
    IF UnpackError(a.missing, n_bytes_per_imu) # ""
    THEN UnpackError(a.missing, n_bytes_per_imu)
    ELSE IF \E i \in 1..Len(a.records) : ImuIDError(a.records[i].id) # ""
    THEN "KeyError"
    ELSE ""
\* ids = [x['ID'] for x in imus]; for id in ids: data += imus[id-1][...]
ImuRows(imus) ==
    [k \in 1..Len(imus) |->
        [id |-> imus[imus[k].id].id, payload |-> imus[imus[k].id].payload]]

\* ID fields of skeleton records: small IDs, one with 7 binary digits, one
\* above 255 with the low byte of a small one
RawIDs == {1, 2, 3, 64, 259}
\* device IDs of IMU records: the configured ones and an unknown device
ImuIDs == 0..NRecords
Payloads == {0, 1}
MissingBytes == {0, 3}
SkeletonBuffers ==
    [modality : {"motive"},
     records : [1..NRecords -> [id : RawIDs, payload : Payloads]],
     missing : MissingBytes]
ImuBuffers ==
    [modality : {"imus"},
     records : [1..NRecords -> [id : ImuIDs, payload : Payloads]],
     missing : MissingBytes]

InitDecode ==
    /\ NoSession
    /\ fn = "" /\ arg \in SkeletonBuffers \cup ImuBuffers /\ res = None
NoRows == [error |-> "", rows |-> <<>>]
ProcessMotiveSkeleton(perm) ==
    /\ fn = "" /\ arg.modality = "motive"
    /\ fn' = "_process_motive_skeleton"
    /\ LET err == SkeletonDecodeError(arg)
           rows == SkeletonRows(arg.records)
       IN  IF err # ""
           THEN /\ perm = [i \in 1..NRecords |-> i]
                /\ res' = [NoRows EXCEPT !.error = err]
           ELSE /\ ArgSort(rows, perm)
                /\ res' = [NoRows EXCEPT !.rows = [i \in 1..Len(rows) |-> rows[perm[i]]]]
    /\ UNCHANGED <<arg, sessionVars>>
ProcessImus ==
    /\ fn = "" /\ arg.modality = "imus"
    /\ fn' = "_process_imus"
    /\ LET err == ImuDecodeError(arg)
       IN  IF err # ""
           THEN res' = [NoRows EXCEPT !.error = err]
           ELSE res' = [NoRows EXCEPT !.rows = ImuRows(arg.records)]
    /\ UNCHANGED <<arg, sessionVars>>
NextDecode ==
    \/ \E perm \in Perms(NRecords) : ProcessMotiveSkeleton(perm)
    \/ ProcessImus
SpecDecode == InitDecode /\ [][NextDecode]_vars

(***************************************************************************)
(* The decode stages, each applied to what its socket delivers: the        *)
(* timeout sentinel or a datagram (_process_motive_skeleton,               *)
(* _process_imus, _process_imu, _process_unity_calib,                      *)
(* _process_unity_flag).  The result of a stage is the exception it        *)
(* raises ("" for none), the value it returns and whether it went as far   *)
(* as struct.unpack or decode.                                             *)
(***************************************************************************)
DecodeStages == {"_process_motive_skeleton", "_process_imus", "_process_imu",
                 "_process_unity_calib", "_process_unity_flag"}
Datagram(content) == [kind |-> "bytes", content |-> content]
NoValue == [kind |-> "none"]
\* a stage that unpacks the sentinel: struct.unpack and decode refuse a str
SentinelUnpacked(data) == [error |-> "TypeError", value |-> NoValue, unpacked |-> TRUE]
\* if _timeout(data): return data
SentinelPassThrough(data) == [error |-> "", value |-> data, unpacked |-> FALSE]
Raised(err) == [error |-> err, value |-> NoValue, unpacked |-> TRUE]
Returned(value) == [error |-> "", value |-> value, unpacked |-> TRUE]
\* bytes of the format "dddd" of _process_imu
IMU_FORMAT_BYTES == 32
\* _process_imu past the sentinel test: unpack of "dddd", then the name
\* unity_control is read before the function binds it (lines 650-662)
ProcessImuDatagram(len) ==
    IF len # IMU_FORMAT_BYTES THEN Raised("struct.error")
    ELSE Raised("UnboundLocalError")
\* _process_unity_calib past the sentinel test: len(data)//4 floats
ProcessUnityCalibDatagram(len) ==
    IF len % SKELETON_ITEM_BYTES # 0 THEN Raised("struct.error")
    ELSE Returned([kind |-> "floats", size |-> len \div SKELETON_ITEM_BYTES])
\* _process_unity_flag past the sentinel test: data.decode("utf-8")
ProcessUnityFlagDatagram(byte) ==
    IF byte = "invalid" THEN Raised("UnicodeDecodeError")
    ELSE Returned([kind |-> "str", text |-> byte])
DecodeStage(stage, data, perm) ==
    IF _timeout(data) THEN SentinelPassThrough(data)
    ELSE IF stage = "_process_motive_skeleton"
    THEN LET rows == SkeletonRows(data.content.records)
         IN  IF SkeletonDecodeError(data.content) # ""
             THEN Raised(SkeletonDecodeError(data.content))
             ELSE Returned([kind |-> "array",
                            rows |-> [i \in 1..Len(rows) |-> rows[perm[i]]]])
    ELSE IF stage = "_process_imus"
    THEN IF ImuDecodeError(data.content) # ""
         THEN Raised(ImuDecodeError(data.content))
         ELSE Returned([kind |-> "array", rows |-> ImuRows(data.content.records)])
    ELSE IF stage = "_process_imu" THEN ProcessImuDatagram(data.content)
    ELSE IF stage = "_process_unity_calib" THEN ProcessUnityCalibDatagram(data.content)
    ELSE ProcessUnityFlagDatagram(data.content)

\* byte lengths of the datagrams of the single IMU and of the calibration
\* stream: the expected size, 3 bytes short, a whole float short
DatagramLengths == {IMU_FORMAT_BYTES, IMU_FORMAT_BYTES - 3, IMU_FORMAT_BYTES - 4,
                    4 * UNITY_HEADER_SIZE, 4 * UNITY_HEADER_SIZE - 3}
FlagBytes == {"a", "c", "q", "r", "x", "invalid"}
StageData(stage) ==
    {Timeout} \cup
    IF stage = "_process_motive_skeleton" THEN {Datagram(b) : b \in SkeletonBuffers}
    ELSE IF stage = "_process_imus" THEN {Datagram(b) : b \in ImuBuffers}
    ELSE IF stage = "_process_unity_flag" THEN {Datagram(b) : b \in FlagBytes}
    ELSE {Datagram(n) : n \in DatagramLengths}
StageArgs == UNION {[stage : {st}, data : StageData(st)] : st \in DecodeStages}

InitDecodeStage ==
    /\ NoSession
    /\ fn = "" /\ arg \in StageArgs /\ res = None
ProcessStage(perm) ==
    /\ fn = ""
    /\ fn' = arg.stage
    /\ IF arg.stage = "_process_motive_skeleton" /\ ~_timeout(arg.data)
          /\ SkeletonDecodeError(arg.data.content) = ""
       THEN ArgSort(SkeletonRows(arg.data.content.records), perm)
       ELSE perm = [i \in 1..NRecords |-> i]
    /\ res' = DecodeStage(arg.stage, arg.data, perm)
    /\ UNCHANGED <<arg, sessionVars>>
SpecDecodeStage ==
    InitDecodeStage /\ [][\E perm \in Perms(NRecords) : ProcessStage(perm)]_vars

(***************************************************************************)
(* _skeleton_preprocessing_II: normalization of the used features with the *)
(* mapping's norm_av and norm_std, then dimensionality reduction.  A float *)
(* is finite, an infinity or nan; the feature values are multiples of      *)
(* every non-zero std of the model, so that the quotients are whole.       *)
(***************************************************************************)
Finite(n) == [kind |-> "finite", v |-> n]
IsFinite(x) == x.kind = "finite"
\* numpy's true division of a float by a float: a zero divisor gives an
\* infinity or nan (and a RuntimeWarning), never an exception
np_divide(x, d) ==
    IF d # 0 THEN Finite(x \div d)
    ELSE IF x > 0 THEN [kind |-> "inf", v |-> 1]
    ELSE IF x < 0 THEN [kind |-> "inf", v |-> -1]
    ELSE [kind |-> "nan", v |-> 0]
\* (skel_subselect - norm_av) / norm_std, as the dict keyed by used_feats
Normalized(skel, norm_av, norm_std) ==
    [x \in Parts |-> np_divide(skel[x] - norm_av[x], norm_std[x])]
\* skel_tofit[out] = [skel[x] for x in mapp['features'][out]], one row
SignalsReduction(skel, features) ==
    [out \in {regression_outputs[i] : i \in 1..Len(regression_outputs)} |->
        [k \in 1..Len(features[out]) |-> skel[features[out][k]]]]
\* the exception the routine raises ("" for none), the normalized features
\* and the value it returns: skel_tofit is bound in the 'signals' branch
\* only, any other setting reads an unbound local at line 1314
SkeletonPreprocessingII(a) ==
    LET skel == Normalized(a.skel, a.norm_av, a.norm_std)
    IN  IF a.dim_reduction /\ a.dim_reduction_type = "signals"
        THEN [error |-> "", skel_norm |-> skel,
              skel_tofit |-> SignalsReduction(skel, a.features)]
        ELSE [error |-> "UnboundLocalError", skel_norm |-> skel,
              skel_tofit |-> NoValue]

\* unbiased angles, and the normalization parameters of the mapping
UnbiasedValues == {-2, 0, 2}
NormAvValues == {0, 2}
NormStdValues == {0, 1, 2}
\* values of mapp['features']: the features each output is fitted on
FeatureConfigs ==
    {[torso |-> <<"torso">>, arm |-> <<"arm">>],
     [torso |-> <<"torso", "arm">>, arm |-> <<"arm", "torso">>]}
PreprocessingIIArgs ==
    [skel : [Parts -> UnbiasedValues], norm_av : [Parts -> NormAvValues],
     norm_std : [Parts -> NormStdValues], features : FeatureConfigs,
     dim_reduction : BOOLEAN, dim_reduction_type : {"bones", "signals"}]
InitSkeletonPreprocessingII ==
    /\ NoSession
    /\ fn = "" /\ arg \in PreprocessingIIArgs /\ res = None
SkeletonPreprocessingIICall ==
    /\ fn = ""
    /\ fn' = "_skeleton_preprocessing_II"
    /\ res' = SkeletonPreprocessingII(arg)
    /\ UNCHANGED <<arg, sessionVars>>
SpecSkeletonPreprocessingII ==
    InitSkeletonPreprocessingII /\ [][SkeletonPreprocessingIICall]_vars

(***************************************************************************)
(* run('control') up to the end of the first tick whose flag is 'c', for   *)
(* each control style and each state of the mapping artifact: the          *)
(* exception that leaves run ("" for none), the calls of _import_mapping,  *)
(* whether the loop was entered, whether a regressor was asked for a       *)
(* prediction and the commands sent.                                       *)
(***************************************************************************)
\* if not settings['control_style'] == 'simple': _maxmin or _new predict
RegressorConsulted(style) == style # "simple"
RunControlFirstTick(style, load, frame) ==
    IF AfterImportMapping(load.error) = "raised"
    THEN [error |-> load.error, loads |-> 1, entered |-> FALSE,
          regressor |-> FALSE, sent |-> 0]
    ELSE LET out == ControlRoutineOutcome(frame, CONTROL_COUNT_INIT,
                                          EmptyList, EmptyList, None)
         IN  [error |-> out.error, loads |-> 1, entered |-> TRUE,
              regressor |-> out.error = "" /\ RegressorConsulted(style),
              sent |-> out.sent]
RunControlArgs ==
    [control_style : ControlStyles, artifact : MappingArtifacts, frame : InputReads]
InitRunControl ==
    /\ NoSession
    /\ fn = "" /\ arg \in RunControlArgs /\ res = None
RunControl(load) ==
    /\ fn = ""
    /\ load \in ImportMapping(arg.artifact)
    /\ fn' = "run"
    /\ res' = RunControlFirstTick(arg.control_style, load, arg.frame)
    /\ UNCHANGED <<arg, sessionVars>>
SpecRunControl ==
    InitRunControl /\ [][\E load \in ImportOutcomes : RunControl(load)]_vars

(***************************************************************************)
(* udp_receiver.py: the receiver loop of the hand-tracking script (lines   *)
(* 88-181).  One iteration of `while True` is one step; a datagram is its  *)
(* length and whether its joints are ones lines 119-175 can process.       *)
(***************************************************************************)
\* datagrams the script reads before the model stops offering them
MaxDatagrams == 5
NUM_JOINTS == 26
NUM_HANDS == 2
\* struct.calcsize(FORMAT_STRING) and struct.calcsize('d')
JOINT_DATA_SIZE == 36
DOUBLE_SIZE == 8
expected_size == NUM_HANDS * NUM_JOINTS * JOINT_DATA_SIZE + DOUBLE_SIZE
HandDatagramLengths ==
    {0, DOUBLE_SIZE, expected_size - 1, expected_size, expected_size + 1}
HandDatagrams == [len : HandDatagramLengths, wellformed : BOOLEAN]
\* a bug: the size test is missing, every datagram is unpacked
SizeAcceptedAlways(len) == TRUE
\* if len(data) != expected_size: print(...); continue
SizeAccepted(len) == len = expected_size
\* the exception lines 119-175 raise on a datagram ("" for none)
ProcessHandDatagram(d) ==
    IF d.len < DOUBLE_SIZE THEN "struct.error"        \* line 119
    ELSE IF d.len # expected_size THEN "ValueError"   \* line 123
    ELSE IF ~d.wellformed THEN "KeyError"             \* line 144
    ELSE ""
\* finally: sock.close()
SockAfterLoop == "closed"

InitReceiver ==
    /\ NoSession
    /\ fn = "" /\ arg = None /\ res = None
\* lines 90-102
ReceiverStart ==
    /\ receiver_pc = "off"
    /\ receiver_pc' = "loop"
    /\ sock' = "bound"
    /\ frame_idx' = 0
    /\ output_data' = EmptyList
    /\ UNCHANGED <<receiver_error, fnVars, settingsVars, callVars, pc, loop,
                   resultVars, sockVars, count, elapsed, age, bufVars, skelVars,
                   fileVars, flushes, sent, quit_flag>>
\* one iteration of the loop on the datagram recvfrom returned
ReceiverTick(d) ==
    /\ receiver_pc = "loop"
    /\ frame_idx < MaxDatagrams
    /\ frame_idx' = frame_idx + 1
    /\ IF ~SizeAccepted(d.len)
       THEN UNCHANGED <<receiver_pc, receiver_error, sock, output_data>>
       ELSE IF ProcessHandDatagram(d) # ""
       THEN /\ receiver_pc' = "exited"
            /\ receiver_error' = ProcessHandDatagram(d)
            /\ sock' = SockAfterLoop
            /\ UNCHANGED output_data
       ELSE /\ output_data' = Put(output_data, frame_idx + 1, d)
            /\ UNCHANGED <<receiver_pc, receiver_error, sock>>
    /\ UNCHANGED <<fnVars, settingsVars, callVars, pc, loop,
                   resultVars, sockVars, count, elapsed, age, bufVars, skelVars,
                   fileVars, flushes, sent, quit_flag>>
\* the script is interrupted while recvfrom blocks (line 110)
ReceiverInterrupt ==
    /\ receiver_pc = "loop"
    /\ frame_idx < MaxDatagrams
    /\ frame_idx' = frame_idx + 1
    /\ receiver_pc' = "exited"
    /\ receiver_error' = "KeyboardInterrupt"
    /\ sock' = SockAfterLoop
    /\ UNCHANGED <<output_data, fnVars, settingsVars, callVars, pc, loop,
                   resultVars, sockVars, count, elapsed, age, bufVars, skelVars,
                   fileVars, flushes, sent, quit_flag>>
NextReceiver ==
    \/ ReceiverStart
    \/ \E d \in HandDatagrams : ReceiverTick(d)
    \/ ReceiverInterrupt
SpecReceiver == InitReceiver /\ [][NextReceiver]_vars

(***************************************************************************)
(* Shorthands of the properties.                                           *)
(***************************************************************************)
Ended == pc \in {"returned", "raised"}
InLoop == pc \in {"acq", "ctl"}
\* every recorded input is a real frame and every frame has its own sample
CleanAcquisition ==
    /\ \A i \in DOMAIN input_data : input_data[i].kind = "skel"
    /\ DOMAIN unity_num = DOMAIN input_data
\* IDLE, ACQUIRING or CONTROLLING, FLUSHING, DONE
Rank(p) == IF p = "idle" THEN 0
           ELSE IF p \in {"acq", "ctl"} THEN 1
           ELSE IF p \in {"acq_flush", "ctl_flush"} THEN 2
           ELSE 3

(***************************************************************************)
(* C1: run('acquisition') called while HRI.hri_state reports existing data *)
(* returns status 1, never enters the acquisition loop, accepts no frame,  *)
(* writes no file and has closed the sockets when it returns.              *)
(***************************************************************************)
C1_CollisionReturnsOne ==
    (mode = "acquisition" /\ data_present) =>
        /\ pc = "returned" /\ status = 1
        /\ loop = "none" /\ count = 0 /\ DOMAIN input_data = {}
        /\ acq_file = None /\ ctl_file = None
        /\ ~sockets_open /\ n_close = 1

(***************************************************************************)
(* C2: in acquisition mode, once a frame has been accepted (count > 0), an *)
(* iteration that finds more than the idle threshold elapsed since the     *)
(* last accepted frame enters the flush branch and accepts nothing,        *)
(* whatever flag was read; and the idle timer restarts only with an        *)
(* accepted frame.                                                         *)
(***************************************************************************)
C2_IdleTimeoutFlushes ==
    [][ pc = "acq" =>
          /\ (count > 0 /\ elapsed' > idle) =>
                (pc' = "acq_flush" /\ count' = count /\ bufVars' = bufVars)
          /\ age' < age =>
                /\ age' = 0 /\ IsSet(input_data', count)
                \* the frame is counted unless its calibration sample
                \* ends the session (line 1038)
                /\ count' = count + 1 \/ pc' = "raised" ]_vars

C2_Witness ==
    /\ pc = "acq_flush" /\ count > 0 /\ count < n_readings
    /\ elapsed > idle /\ quit_flag = "a"

(***************************************************************************)
(* C3: every way a session ends passes through the flush: when run is over *)
(* after a loop was entered, the flush branch has run and the persisted    *)
(* file holds one row per accepted frame.                                  *)
(***************************************************************************)
C3_EveryEndFlushes ==
    (Ended /\ loop # "none") =>
        /\ flushes >= 1
        /\ loop = "acquisition" =>
              (acq_file # None /\ Len(acq_file[1]) = count)
        /\ loop = "control" =>
              (ctl_file # None /\ Len(ctl_file[1]) = count - CONTROL_COUNT_INIT)

(***************************************************************************)
(* C4: in acquisition mode a 'q' read after at least one accepted frame    *)
(* persists the samples, releases the sockets, leaves the loop, and run    *)
(* returns 0 (here: for sessions whose every frame and sample was valid).  *)
(***************************************************************************)
C4_AcquisitionQuitReturnsZero ==
    (loop = "acquisition" /\ quit_flag = "q" /\ count > 0
        /\ CleanAcquisition /\ Ended) =>
        /\ pc = "returned" /\ status = 0
        /\ acq_file # None /\ ~sockets_open

(***************************************************************************)
(* C5: in control mode a 'q' read after at least one accepted frame        *)
(* persists the command history, releases the sockets, leaves the loop,    *)
(* and run returns 0.                                                      *)
(***************************************************************************)
C5_ControlQuitReturnsZero ==
    (loop = "control" /\ quit_flag = "q" /\ count > CONTROL_COUNT_INIT
        /\ Ended) =>
        /\ pc = "returned" /\ status = 0
        /\ ctl_file # None /\ ~sockets_open

(***************************************************************************)
(* C6: in both modes, an iteration that starts with the frame counter at   *)
(* or above n_readings accepts no frame and enters the flush branch        *)
(* (iterations that raise are left aside).                                 *)
(***************************************************************************)
C6_FrameLimitFlushes ==
    [][ (InLoop /\ count >= n_readings /\ pc' # "raised") =>
          (count' = count /\ pc' \in {"acq_flush", "ctl_flush"}) ]_vars

C8_ForwardOnly ==
    [][ ~Ended =>
          /\ Rank(pc') >= Rank(pc)
          /\ pc # "idle" => loop' = loop
          /\ flushes >= 1 =>
                /\ count' = count /\ sent' = sent /\ flushes' = flushes
                /\ bufVars' = bufVars /\ fileVars' = fileVars ]_vars

C8_Witness ==
    /\ pc = "returned" /\ status = 0 /\ flushes = 1
    /\ acq_file # None /\ count > 0

(***************************************************************************)
(* C9: first_skel is assigned only while it is None, by the first frame    *)
(* that _skeleton_preprocessing processes (to that frame's relativized     *)
(* skeleton); once set it never changes, whatever frames follow.           *)
(***************************************************************************)
C9_FirstSkelSetOnce ==
    [][ /\ first_skel # None => first_skel' = first_skel
        /\ (first_skel = None /\ first_skel' # None) =>
              (processed' = processed + 1 /\ first_skel' = Some(skel_rel')) ]_vars

C9_Witness ==
    /\ processed >= 2 /\ first_skel # None
    /\ first_skel # Some(skel_rel)

(***************************************************************************)
(* C10: in a call of run that follows the one in which first_skel was      *)
(* captured, first_skel still is the value captured then and every frame   *)
(* is debiased against it.                                                 *)
(***************************************************************************)
C10_FirstSkelSurvivesRun ==
    (first_run = "earlier" /\ processed >= 1) =>
        /\ first_skel = Some(first_value)
        /\ skel_unb = Unbias(skel_rel, first_value)

C10_Witness ==
    /\ first_run = "earlier" /\ processed >= 1
    /\ skel_rel # first_value
    /\ skel_unb # ZeroPose

C12_ClampLaw ==
    fn = "_new" =>
        /\ res.error = ""
        /\ \A k \in 1..NFeatures :
              LET x == arg.row[k]
                  lo == arg.min_values[k]
                  hi == arg.max_values[k]
                  out == res.regressor_input[k]
              IN  /\ x > hi => out = hi
                  /\ x < lo => out = lo
                  /\ (lo <= x /\ x <= hi) => out = x

C12_Witness ==
    /\ fn = "_new"
    /\ arg.row[1] > arg.max_values[1] /\ res.regressor_input[1] < arg.row[1]
    /\ arg.row[2] < arg.min_values[2] /\ res.regressor_input[2] > arg.row[2]
    /\ arg.min_values[3] < arg.row[3] /\ arg.row[3] < arg.max_values[3]

(***************************************************************************)
(* C13: when the reference pose equals the relativized pose of the frame   *)
(* in hand (as on the frame that captures it), the debiased angle of       *)
(* every used body part is zero.                                           *)
(***************************************************************************)
C13_DebiasOfReferenceIsZero ==
    (processed >= 1 /\ first_skel = Some(skel_rel)) =>
        \A part \in Parts : skel_unb[part] = 0

C13_Witness ==
    /\ processed >= 2 /\ first_run = "this"
    /\ first_skel = Some(skel_rel)
    /\ \A part \in Parts : skel_rel[part] # 0
    /\ skel_unb = ZeroPose

(***************************************************************************)
(* C14: relativization visits the used body parts in reverse declaration   *)
(* order, each exactly once; when every parent is declared before its      *)
(* children, each part with a parent ends as its original angle minus its  *)
(* parent's original angle and each root keeps its absolute angle.         *)
(***************************************************************************)
C14_RelativizeChildToRoot ==
    \A c \in 1..Len(res) :
        LET n == Len(arg.parts)
            ParentsFirst ==
                \A i \in 1..n :
                    \/ arg.chain[i] = NoParent
                    \/ \E j \in 1..(i - 1) : arg.parts[j] = arg.chain[i]
        IN  /\ Len(res[c].visited) = n
            /\ \A k \in 1..n : res[c].visited[k] = n - k
            /\ ParentsFirst =>
                  \A i \in 1..n :
                      res[c].pose[arg.parts[i]] =
                          IF arg.chain[i] = NoParent
                          THEN arg.pose[arg.parts[i]]
                          ELSE arg.pose[arg.parts[i]] - arg.pose[arg.chain[i]]

C14_Witness ==
    /\ Len(res) >= 1
    /\ arg.chain = <<NoParent, "torso", "arm">>
    /\ arg.pose = [torso |-> 1, arm |-> 2, hand |-> 2]
    /\ res[1].pose = [torso |-> 1, arm |-> 1, hand |-> 0]

RowsAreTheRecords(rows, records) ==
    \E f \in Perms(Len(records)) :
        \A i \in 1..Len(records) :
            /\ rows[i].payload = records[f[i]].payload
            /\ rows[i].id = JointID(records[f[i]].id)
Ascending(rows) == \A i, j \in 1..Len(rows) : i < j => rows[i].id <= rows[j].id
IsPermutationOfIDs(records) ==
    \A k \in 1..Len(records) : \E i \in 1..Len(records) : records[i].id = k

(***************************************************************************)
(* C16: for every skeleton buffer of the expected size, whatever the order *)
(* of its records, _process_motive_skeleton returns one row per record,    *)
(* in ascending order of joint ID, each row with the payload of its        *)
(* record.                                                                 *)
(***************************************************************************)
C16_SkeletonSortedByID ==
    (fn = "_process_motive_skeleton" /\ arg.missing = 0) =>
        /\ res.error = ""
        /\ Len(res.rows) = Len(arg.records)
        /\ Ascending(res.rows)
        /\ RowsAreTheRecords(res.rows, arg.records)

(***************************************************************************)
(* C17: for every IMU-array buffer of the expected size whose records are  *)
(* a permutation of the configured device IDs 1..n, _process_imus returns  *)
(* the samples in ascending order of ID, each with the payload of the      *)
(* device of that ID.                                                      *)
(***************************************************************************)
C17_ImusSortedByID ==
    (fn = "_process_imus" /\ arg.missing = 0 /\ IsPermutationOfIDs(arg.records)) =>
        /\ res.error = ""
        /\ Len(res.rows) = Len(arg.records)
        /\ Ascending(res.rows)
        /\ RowsAreTheRecords(res.rows, arg.records)

(***************************************************************************)
(* C18: after the decode of a skeleton or IMU-array buffer of the expected *)
(* size, no joint ID appears twice in the decoded frame.                   *)
(***************************************************************************)
C18_DecodedIDsUnique ==
    (fn # "" /\ arg.missing = 0 /\ res.error = "") =>
        \A i, j \in 1..Len(res.rows) : res.rows[i].id = res.rows[j].id => i = j

(***************************************************************************)
(* C19: a skeleton buffer 3 bytes shorter than the expected size crashes   *)
(* neither the decoding nor the session: no call of run is left by the     *)
(* exception of struct.unpack.                                             *)
(***************************************************************************)
C19_ShortBufferNoCrash ==
    ~(pc = "raised" /\ error = "struct.error")

(***************************************************************************)
(* C20: when the calibration sample read at frame index count does not     *)
(* match the header size (a read timeout included), the sample recorded    *)
(* at index count is the one recorded at index count - 1 and no error is   *)
(* raised, on every accepted frame of a session, the first one included:   *)
(* no iteration of either loop ends with an exception of the calibration   *)
(* decode, and the slot an iteration writes holds a sample of the header   *)
(* size or what the slot before it holds.                                  *)
(***************************************************************************)
\* the slot of index count after an accepted frame: a sample of the header
\* size, or the content of the slot before it (None where that one is None)
PreviousSampleReused ==
    unity_num' # unity_num =>
        \/ /\ IsSet(unity_num', count)
           /\ unity_num'[Index(count)].size = UNITY_HEADER_SIZE
           /\ unity_num'[Index(count)].rest = 0
        \/ unity_num' = CopyItem(unity_num, count, count - 1)

C20_MismatchReusesPrevious ==
    [][(pc = "acq" \/ pc = "ctl") =>
          (error' # ProcessUnityCalibError(UnityRagged) /\ PreviousSampleReused)]_vars

(***************************************************************************)
(* C21: each decode stage given the timeout sentinel returns the sentinel  *)
(* itself, attempts no unpacking, raises nothing and changes no state.     *)
(***************************************************************************)
C21_SentinelPassesThrough ==
    [][(fn = "" /\ fn' \in DecodeStages /\ _timeout(arg.data)) =>
          (/\ res'.value = arg.data /\ res'.error = "" /\ ~res'.unpacked
           /\ arg' = arg /\ sessionVars' = sessionVars)]_vars

C21_Witness ==
    /\ fn = "_process_unity_calib" /\ _timeout(arg.data)
    /\ res.value = Timeout /\ res.error = ""

(***************************************************************************)
(* C22: a transport timeout on the input device is recoverable in control  *)
(* mode: no tick of the control loop of a configured device ('motive')     *)
(* ends the session with the missing-input error.                          *)
(***************************************************************************)
C22_InputTimeoutRecoverable ==
    [][(pc = "ctl" /\ input_device = "motive") =>
          ~(pc' = "raised" /\ error' = "NameError")]_vars

(***************************************************************************)
(* C23: _control_routine called with the sentinel fails immediately: the   *)
(* tick that ends with the missing-input error wrote no entry of the raw   *)
(* history or of the command history, left the reference pose as it was    *)
(* and sent no command.                                                    *)
(***************************************************************************)
C23_MissingInputFailsFirst ==
    [][(pc = "ctl" /\ pc' = "raised" /\ error' = "NameError") =>
          (/\ control_history_raw_num' = control_history_raw_num
           /\ control_history_num' = control_history_num
           /\ first_skel' = first_skel
           /\ sent' = sent /\ processed' = processed /\ count' = count)]_vars

C23_Witness ==
    /\ pc = "raised" /\ error = "NameError" /\ loop = "control"
    /\ sent = 1 /\ count = CONTROL_COUNT_INIT + 1
    /\ DOMAIN control_history_raw_num = {CONTROL_COUNT_INIT}
    /\ DOMAIN control_history_num = {CONTROL_COUNT_INIT}
    /\ first_skel # None

(***************************************************************************)
(* C24: normalization with a standard deviation of zero on a channel is    *)
(* reported as an error: when _skeleton_preprocessing_II returns, no       *)
(* channel had a zero std and every feature value it passes on to          *)
(* reduction and regression is finite.                                     *)
(***************************************************************************)
C24_ZeroStdIsAnError ==
    (fn = "_skeleton_preprocessing_II" /\ res.error = "") =>
        /\ \A x \in Parts : arg.norm_std[x] # 0
        /\ \A out \in DOMAIN res.skel_tofit :
              \A k \in 1..Len(res.skel_tofit[out]) : IsFinite(res.skel_tofit[out][k])

(***************************************************************************)
(* C30: with dimensionality reduction enabled and dim_reduction_type       *)
(* 'bones', _skeleton_preprocessing_II is a passthrough: it raises nothing *)
(* and returns the normalized features unchanged.                          *)
(***************************************************************************)
C30_BonesIsPassthrough ==
    (/\ fn = "_skeleton_preprocessing_II"
     /\ arg.dim_reduction /\ arg.dim_reduction_type = "bones") =>
        (res.error = "" /\ res.skel_tofit = res.skel_norm)

(***************************************************************************)
(* C25: in a control session the mapping is loaded exactly once, before    *)
(* the first tick, and the control loop never writes it; when the load     *)
(* fails the exception leaves run at once: the loop is not entered, no     *)
(* command is sent and the load is not tried again.                        *)
(***************************************************************************)
MappingLoadedOnce ==
    /\ loop = "control" => (mapp_loads = 1 /\ mapp = Loaded.mapp)
    /\ (mode = "control" /\ input_device = "motive" /\ mapp = None) =>
          /\ pc = "raised" /\ error \in {"KeyError", "FileNotFoundError", "TypeError"}
          /\ loop = "none" /\ sent = 0 /\ processed = 0 /\ mapp_loads = 1

C25_MappingLoadedOnceReadOnly ==
    [][/\ MappingLoadedOnce'
       /\ (pc = "ctl" \/ pc = "ctl_flush") =>
             (mapp' = mapp /\ mapp_loads' = mapp_loads)]_vars

C25_Witness ==
    /\ mode = "control" /\ pc = "raised" /\ error = "KeyError"
    /\ mapp = None /\ mapp_loads = 1 /\ loop = "none" /\ sent = 0
    /\ first_run = "earlier"

(***************************************************************************)
(* C26: with control_style 'simple' a control session runs and sends       *)
(* commands without a fitted mapping artifact: whatever the state of the   *)
(* artifact, run enters the loop, the tick of a skeleton frame sends its   *)
(* command and no regressor is consulted.                                  *)
(***************************************************************************)
C26_SimpleNeedsNoMapping ==
    (fn = "run" /\ arg.control_style = "simple" /\ arg.frame.kind = "skel") =>
        (res.error = "" /\ res.entered /\ res.sent = 1 /\ ~res.regressor)

(***************************************************************************)
(* C27: in control mode exactly one command vector is computed, recorded   *)
(* and sent on each tick whose flag is 'c' and none on any other tick; at  *)
(* flush the persisted command history has one row per accepted frame, in  *)
(* acceptance order.                                                       *)
(***************************************************************************)
\* the tick stored one command vector at index count and sent it
OneCommand ==
    /\ sent' = sent + 1
    /\ IsSet(control_history_num', count)
    /\ control_history_num' =
           Put(control_history_num, count, control_history_num'[Index(count)])
\* the tick stored and sent nothing
NoCommand ==
    sent' = sent /\ control_history_num' = control_history_num
\* the file the flush writes: the recorded vectors by ascending frame index
HistoryPersisted ==
    LET n == count - CONTROL_COUNT_INIT
    IN  IF n = 0 THEN ctl_file' = None
        ELSE /\ ctl_file' # None
             /\ Len(ctl_file'[1]) = n /\ sent = n
             /\ \A k \in 1..n :
                   ctl_file'[1][k] = control_history_num[CONTROL_COUNT_INIT + k - 1]

C27_OneCommandPerReadyTick ==
    [][/\ pc = "ctl" =>
             \* the ticks whose flag is 'c' are those of the accept branch:
             \* they count a frame or end with the exception of the routine
             IF count' = count + 1 \/ pc' = "raised" THEN OneCommand ELSE NoCommand
       /\ pc = "ctl_flush" => HistoryPersisted]_vars

(***************************************************************************)
(* C28: the session log is append-only and keyed by an increasing frame    *)
(* index: while a loop runs and through its flush the counter never        *)
(* decreases and grows by exactly 1 on an accepted frame, the frame is     *)
(* written at the index the counter had, no other index is written, and    *)
(* an entry once written is neither overwritten nor removed.               *)
(***************************************************************************)
\* every entry of buf is kept, and what is added is added at index count
AppendOnly(buf, after) ==
    /\ \A i \in DOMAIN buf : i \in DOMAIN after /\ after[i] = buf[i]
    /\ DOMAIN after \subseteq DOMAIN buf \cup {count}

C28_LogAppendOnly ==
    [][(pc = "acq" \/ pc = "ctl" \/ pc = "acq_flush" \/ pc = "ctl_flush") =>
          /\ count' = count \/ count' = count + 1
          /\ AppendOnly(input_data, input_data')
          /\ AppendOnly(unity_num, unity_num')
          /\ AppendOnly(control_history_raw_num, control_history_raw_num')
          /\ AppendOnly(control_history_num, control_history_num')
          /\ (count' = count + 1 /\ loop = "acquisition") => IsSet(input_data', count)
          /\ (count' = count + 1 /\ loop = "control") =>
                (IsSet(control_history_raw_num', count)
                 /\ IsSet(control_history_num', count))
          /\ (pc = "acq_flush" \/ pc = "ctl_flush") => count' = count]_vars

C28_Witness ==
    /\ pc = "acq" /\ count = 2
    /\ DOMAIN input_data = {0, 1} /\ DOMAIN unity_num = {0, 1}
    /\ input_data[0] # input_data[1]

(***************************************************************************)
(* C29: a tick whose flag is neither the ready flag of the mode ('a' in    *)
(* acquisition, 'c' in control) nor 'q' leaves the frame counter, the      *)
(* recording buffers and the reference pose unchanged, sends nothing and   *)
(* stays in the loop, provided the frame limit and the idle timeout are    *)
(* not reached (the flag is the one read: simulate_flag is off).           *)
(***************************************************************************)
TickIgnored ==
    /\ count' = count /\ bufVars' = bufVars /\ first_skel' = first_skel
    /\ sent' = sent /\ pc' = pc /\ flushes' = flushes

C29_OtherFlagsIgnored ==
    [][\A dt \in TimeSteps :
          /\ \A flag \in FlagReads \ {"a", "q"} :
                (/\ pc = "acq" /\ ~simulate_flag /\ elapsed' = Elapsed(dt)
                 /\ count < n_readings /\ ~(count > 0 /\ Elapsed(dt) > idle)
                 /\ AcqTick(flag, dt))
                    => TickIgnored
          /\ \A flag \in FlagReads \ {"c", "q"} :
                (/\ pc = "ctl" /\ ~simulate_flag /\ elapsed' = Elapsed(dt)
                 /\ count < n_readings
                 /\ CtlTick(flag, dt))
                    => TickIgnored]_vars

\* both loops took a tick of that kind: a flag was read, no time passed
C29_Witness ==
    /\ ~simulate_flag /\ pc \in {"acq", "ctl"} /\ count < n_readings
    /\ count \in {1, CONTROL_COUNT_INIT + 1} /\ age = 1 /\ elapsed = 1

(***************************************************************************)
(* C31: for every non-negative ID field carried in a skeleton buffer of    *)
(* the expected size, _process_motive_skeleton does not fail and the joint *)
(* IDs it returns are the lower 8 bits (the ID field mod 256) of the ID    *)
(* fields of the records.                                                  *)
(***************************************************************************)
C31_JointIDIsLowByte ==
    (fn = "_process_motive_skeleton" /\ arg.missing = 0) =>
        /\ res.error = ""
        /\ \A i \in 1..Len(arg.records) :
              \E k \in 1..Len(res.rows) :
                  /\ res.rows[k].id = arg.records[i].id % 256
                  /\ res.rows[k].payload = arg.records[i].payload

(***************************************************************************)
(* C32: the maneuver part of the name of the persisted acquisition file is *)
(* 'mixed' exactly when more than one distinct maneuver label occurs among *)
(* the rows of the file, and otherwise is the name calib_maneuver_dict     *)
(* gives the single label that occurs.                                     *)
(***************************************************************************)
C32_MixedManeuverName ==
    acq_file # None =>
        LET labels == {acq_file[1][i].unity.maneuver : i \in 1..Len(acq_file[1])}
        IN  /\ info_maneuver = "mixed" <=> Cardinality(labels) > 1
            /\ \A l \in labels :
                  labels = {l} => info_maneuver = calib_maneuver_dict[l]

\* a file with rows of two maneuvers has been written
C32_Witness ==
    /\ acq_file # None /\ pc = "returned" /\ info_maneuver = "mixed"
    /\ Cardinality({unity_num[i].maneuver : i \in DOMAIN unity_num}) > 1

(***************************************************************************)
(* C33: in every state of an acquisition or control session the input      *)
(* record of a frame index is present exactly when the calibration record  *)
(* of that index is present (the input log is input_data in acquisition    *)
(* and control_history_raw_num in control), so that the two logs have the  *)
(* same number of rows when the session is flushed.                        *)
(***************************************************************************)
C33_LogsAligned ==
    (loop # "none" /\ pc # "raised") =>
        /\ loop = "acquisition" => DOMAIN input_data = DOMAIN unity_num
        /\ loop = "control" => DOMAIN control_history_raw_num = DOMAIN unity_num
        /\ pc \in {"acq_flush", "ctl_flush"} =>
              Len(NotNone(unity_num)) = Len(NotNone(
                  IF loop = "control" THEN control_history_raw_num ELSE input_data))

(***************************************************************************)
(* C34: in acquisition mode every entry of the input buffer at an index    *)
(* below the frame counter is a device frame, never the timeout sentinel:  *)
(* a tick whose input read timed out records nothing, and the flush is     *)
(* never left by the decoding of a sentinel.                               *)
(***************************************************************************)
C34_NoSentinelRecorded ==
    loop = "acquisition" =>
        /\ \A i \in DOMAIN input_data : i < count => ~_timeout(input_data[i])
        /\ ~(pc = "raised" /\ flushes >= 1 /\ error = "AttributeError")

(***************************************************************************)
(* C35: an acquisition session that reads 'q' before any frame was         *)
(* accepted ends cleanly: once its flush branch has run, no exception has  *)
(* left it, the sockets are closed and the loop has stopped.               *)
(***************************************************************************)
C35_QuitBeforeFirstFrame ==
    (loop = "acquisition" /\ quit_flag = "q" /\ count = 0 /\ flushes >= 1) =>
        /\ pc \in {"epilogue", "returned"} /\ error = ""
        /\ ~sockets_open

(***************************************************************************)
(* C36: in control mode a session that reads no 'q' enters its flush       *)
(* branch after exactly n_readings accepted frames, and the frames         *)
(* processed in a session never exceed n_readings.                         *)
(***************************************************************************)
C36_ControlFrameLimit ==
    loop = "control" =>
        /\ processed <= n_readings
        /\ (flushes >= 1 /\ quit_flag # "q") => processed = n_readings

(***************************************************************************)
(* C37: with input_device 'remote', run starts the background reader of    *)
(* the remote and, on every path on which it returns, the status-1         *)
(* acquisition collision included, has stopped the reader and closed its   *)
(* device by the time it returns.                                          *)
(***************************************************************************)
C37_RemoteReaderStopped ==
    /\ (input_device = "remote" /\ pc = "returned") =>
          remote_hand = Some("closed")
    /\ (input_device = "remote" /\ mode = "acquisition" /\ data_present /\ Ended) =>
          (pc = "returned" /\ status = 1 /\ remote_hand = Some("closed"))

(***************************************************************************)
(* C38: a call of run that returns has closed the transport sockets        *)
(* exactly once: close_sockets is called once on each returning path and   *)
(* never on sockets that are already closed.                               *)
(***************************************************************************)
C38_SocketsClosedOnce ==
    /\ pc = "returned" => (~sockets_open /\ n_close = 1)
    /\ n_close <= 1

(***************************************************************************)
(* C39: with simulate_flag set a 'q' of the simulator never ends the       *)
(* session (acquisition enters the flush branch only at the frame limit or *)
(* on the idle timeout, control only at the frame limit), and the session  *)
(* still reaches DONE: run returns status 0.                               *)
(***************************************************************************)
SimulatedFlushOnlyByLimit ==
    [][(simulate_flag /\ InLoop /\ pc' \in {"acq_flush", "ctl_flush"}) =>
          \/ count' >= n_readings
          \/ pc = "acq" /\ count > 0 /\ elapsed' > idle]_vars
C39_SimulatedSessionReachesDone ==
    /\ SimulatedFlushOnlyByLimit
    /\ (simulate_flag /\ InLoop) ~> (pc = "returned" /\ status = 0)

(***************************************************************************)
(* C40: in the receiver loop of udp_receiver.py a datagram whose length is *)
(* not the expected size is dropped: the iteration adds no row to          *)
(* output_data, leaves the loop running and the socket bound, raises       *)
(* nothing and has advanced the frame index; and whenever the loop has     *)
(* been left the socket is closed.                                         *)
(***************************************************************************)
DatagramDropped ==
    /\ output_data' = output_data
    /\ receiver_pc' = "loop" /\ receiver_error' = "" /\ sock' = "bound"
    /\ frame_idx' = frame_idx + 1
C40_WrongSizeDropped ==
    /\ [][\A d \in HandDatagrams :
             (d.len # expected_size /\ ReceiverTick(d)) => DatagramDropped]_vars
    /\ [](receiver_pc = "exited" => sock = "closed")

\* a row was recorded after a datagram was dropped, then the loop was left
C40_Witness ==
    /\ receiver_pc = "exited" /\ sock = "closed"
    /\ \E i \in DOMAIN output_data : i > 1 /\ ~IsSet(output_data, i - 1)

=============================================================================
